---- MODULE Spec2Model ----
(***************************************************************************)
(* State-machine model of oauthenticator/azuread.py:                       *)
(* AzureAdOAuthenticator's URL defaults, authenticate() and                *)
(* get_user_attributes(), run by several concurrent login flows against   *)
(* a token endpoint and a directory API whose responses are arbitrary.     *)
(***************************************************************************)
EXTENDS Naturals, Sequences, FiniteSets, TLC

\* ------------------------------------------------------------------ bounds
NumFlows == 2
MaxLookups == 1

Flows == 1..NumFlows

\* ------------------------------------------------------- outcomes of a call
Pending == [status |-> "pending"]
Returned(v) == [status |-> "returned", value |-> v]
Raised(e) == [status |-> "raised", error |-> e]

IsReturned(x) == x.status = "returned"
IsRaised(x) == x.status = "raised"

\* ------------------------------------------------------------ configuration
Unset == "<unset>"
ConfiguredTenants == {Unset, "abc"}
Environments == {[LOGIN_SERVICE |-> "Azure AD"],
                 [LOGIN_SERVICE |-> "Azure AD", AAD_TENANT_ID |-> "abc"]}
ConfiguredClaims == {Unset, "upn"}
Versions == {0, 1, 2, 3}
Codes == {"c1", "c2"}

\* os.environ.get(key, default)
environ_get(env, key, default) == IF key \in DOMAIN env THEN env[key] ELSE default

\* @default('tenant_id')
tenant_id_default(env) == environ_get(env, "AAD_TENANT_ID", "")

\* @default('username_claim')
username_claim_default == "name"

\* The authenticator object after construction: configured traits, with the
\* dynamic defaults filled in for the traits left unset.
Authenticator(tenant, claim, version, env) ==
    [tenant_id |-> IF tenant = Unset THEN tenant_id_default(env) ELSE tenant,
     username_claim |-> IF claim = Unset THEN username_claim_default ELSE claim,
     access_token_version |-> version,
     login_service |-> environ_get(env, "LOGIN_SERVICE", "Azure AD"),
     client_id |-> "client1",
     client_secret |-> "secret1",
     callback_url |-> "https://hub.example/hub/oauth_callback"]

\* ---------------------------------------------------------- URL resolution
\* Variant: the two version branches exchanged.
authorize_url_default_swapped(self) ==
    IF self.access_token_version = 2
    THEN Returned("https://login.microsoftonline.com/" \o self.tenant_id \o "/oauth2/authorize")
    ELSE IF self.access_token_version = 1
    THEN Returned("https://login.microsoftonline.com/" \o self.tenant_id \o "/oauth2/v2.0/authorize")
    ELSE Raised("ValueError")

authorize_url_default(self) ==
    IF self.access_token_version = 1
    THEN Returned("https://login.microsoftonline.com/" \o self.tenant_id \o "/oauth2/authorize")
    ELSE IF self.access_token_version = 2
    THEN Returned("https://login.microsoftonline.com/" \o self.tenant_id \o "/oauth2/v2.0/authorize")
    ELSE Raised("ValueError")

\* Variant: any other version falls back to the version 1 URL.
token_url_default_lenient(self) ==
    IF self.access_token_version = 2
    THEN Returned("https://login.microsoftonline.com/" \o self.tenant_id \o "/oauth2/v2.0/token")
    ELSE Returned("https://login.microsoftonline.com/" \o self.tenant_id \o "/oauth2/token")

token_url_default(self) ==
    IF self.access_token_version = 1
    THEN Returned("https://login.microsoftonline.com/" \o self.tenant_id \o "/oauth2/token")
    ELSE IF self.access_token_version = 2
    THEN Returned("https://login.microsoftonline.com/" \o self.tenant_id \o "/oauth2/v2.0/token")
    ELSE Raised("ValueError")

\* ------------------------------------------------------- the outside world
\* An HTTP exchange ends in a transport failure or in a status and a body;
\* a body is JSON text (of the value val) or it is not.
NetworkError == [kind |-> "error"]
Http(status, body) == [kind |-> "http", status |-> status, body |-> body]
NotJson == [json |-> FALSE]
Json(v) == [json |-> TRUE, val |-> v]

\* A compact token header.payload.signature; a segment is the encoding of
\* a JSON value or it is not.
Jwt(claims) == <<Json([alg |-> "RS256"]), Json(claims), "sig">>
AliceClaims == [name |-> "alice", aud |-> "client1", oid |-> "o1"]
BobClaims == [upn |-> "bob@example.org", aud |-> "other", oid |-> "o2"]
EmptyNameClaims == [name |-> "", aud |-> "client1"]
TwoSegments == <<Json([alg |-> "RS256"]), Json(AliceClaims)>>
BadPayload == <<Json([alg |-> "RS256"]), NotJson, "sig">>

\* What the token endpoint may answer to an authorization-code grant.
TokenResponses ==
    {NetworkError,
     Http(500, NotJson),
     Http(200, NotJson),
     Http(200, Json([id_token |-> Jwt(AliceClaims)])),
     Http(200, Json([access_token |-> "A1"])),
     Http(200, Json([access_token |-> "A1", id_token |-> TwoSegments])),
     Http(200, Json([access_token |-> "A1", id_token |-> BadPayload])),
     Http(200, Json([access_token |-> "A1", id_token |-> Jwt(AliceClaims)])),
     Http(200, Json([access_token |-> "A2", id_token |-> Jwt(BobClaims)])),
     Http(200, Json([access_token |-> "A3", id_token |-> Jwt(EmptyNameClaims)]))}

\* What the token endpoint may answer to a client-credentials grant.
ClientCredentialsResponses ==
    {NetworkError,
     Http(401, Json([error |-> "invalid_client"])),
     Http(200, NotJson),
     Http(200, Json([token_type |-> "Bearer"])),
     Http(200, Json([token_type |-> "Bearer", access_token |-> "G1"]))}

\* What the directory API may answer.
GraphResponses ==
    {NetworkError,
     Http(404, Json([error |-> "Request_ResourceNotFound"])),
     Http(200, NotJson),
     Http(200, Json([id |-> "o1", displayName |-> "Alice"]))}

\* ------------------------------------------------------------ library calls
\* AsyncHTTPClient.fetch(req): raises on a transport failure and on a
\* status outside 2xx, returns the response otherwise.
http_client_fetch(r) ==
    IF r.kind = "error" THEN Raised("HTTPClientError")
    ELSE IF r.status < 200 \/ r.status > 299 THEN Raised("HTTPError")
    ELSE Returned(r.body)

\* json.loads(resp.body.decode('utf8', 'replace'))
json_loads(body) ==
    IF body.json THEN Returned(body.val) ELSE Raised("JSONDecodeError")

\* OAuthenticator.fetch(req): the token-fetch helper of the base class.
fetch(r) ==
    LET resp == http_client_fetch(r)
    IN IF IsRaised(resp) THEN resp ELSE json_loads(resp.value)

\* obj[key]
getitem(obj, key) ==
    IF key \in DOMAIN obj THEN Returned(obj[key]) ELSE Raised("KeyError")

\* jwt.decode without signature verification: the payload segment's JSON.
\* With verification off no claim (exp, aud, iss) is validated either.
jwt_decode_unverified(token) ==
    IF Len(token) # 3 THEN Raised("DecodeError")
    ELSE IF ~token[2].json THEN Raised("DecodeError")
    ELSE Returned(token[2].val)

\* if PYJWT_2: jwt.decode(id_token, options={"verify_signature": False},
\*                        audience=self.client_id)
\* else:       jwt.decode(id_token, verify=False)
jwt_decode(self, PYJWT_2, id_token) ==
    IF PYJWT_2
    THEN jwt_decode_unverified(id_token)
    ELSE jwt_decode_unverified(id_token)

\* ------------------------------------------------------------- requests
\* authenticate: the authorization-code POST to the token endpoint.
token_request(self, url, code) ==
    [method |-> "POST",
     url |-> url,
     headers |-> [Content_Type |-> "application/x-www-form-urlencoded; charset=UTF-8"],
     body |-> [client_id |-> self.client_id,
               client_secret |-> self.client_secret,
               grant_type |-> "authorization_code",
               code |-> code,
               redirect_uri |-> self.callback_url]]

\* get_user_attributes: the client-credentials POST to the token endpoint.
client_credentials_request(self, url) ==
    [method |-> "POST",
     url |-> url,
     headers |-> [Content_Type |-> "application/x-www-form-urlencoded; charset=UTF-8"],
     body |-> [scope |-> <<"https://graph.microsoft.com/.default">>,
               client_secret |-> self.client_secret,
               grant_type |-> "client_credentials",
               client_id |-> self.client_id]]

\* Variant: the GET carries the client secret instead of the access token.
graph_request_secret_bearer(self, oid, access_token) ==
    [method |-> "GET",
     url |-> "https://graph.microsoft.com/v1.0/users/" \o oid,
     headers |-> [Authorization |-> "Bearer " \o self.client_secret]]

\* get_user_attributes: the GET to the directory API.
graph_request(self, oid, access_token) ==
    [method |-> "GET",
     url |-> "https://graph.microsoft.com/v1.0/users/" \o oid,
     headers |-> [Authorization |-> "Bearer " \o access_token]]

\* Variant: the username is read from the "name" claim, whatever
\* username_claim is configured.
userdict_fixed_name(self, access_token, decoded) ==
    LET name == getitem(decoded, "name")
    IN IF IsRaised(name) THEN name
       ELSE Returned([name |-> name.value,
                      auth_state |-> [access_token |-> access_token,
                                      user |-> decoded]])

\* authenticate: the identity record built from the decoded claims.
userdict(self, access_token, decoded) ==
    LET name == getitem(decoded, self.username_claim)
    IN IF IsRaised(name) THEN name
       ELSE Returned([name |-> name.value,
                      auth_state |-> [access_token |-> access_token,
                                      user |-> decoded]])

\* Variant: a missing access_token is read as the empty string
\* (resp_json.get) instead of raising.
authenticate_tail_lenient(self, PYJWT_2, resp_json) ==
    LET access_token == IF "access_token" \in DOMAIN resp_json
                        THEN resp_json["access_token"] ELSE ""
        id_token == getitem(resp_json, "id_token")
    IN IF IsRaised(id_token) THEN id_token
       ELSE LET decoded == jwt_decode_unverified(id_token.value)
            IN IF IsRaised(decoded) THEN decoded
               ELSE LET name == getitem(decoded.value, self.username_claim)
                    IN IF IsRaised(name) THEN name
                       ELSE Returned([name |-> name.value,
                                      auth_state |-> [access_token |-> access_token,
                                                      user |-> decoded.value]])

\* authenticate, from the token response to the return.
authenticate_tail(self, PYJWT_2, resp_json) ==
    LET access_token == getitem(resp_json, "access_token")
        id_token == getitem(resp_json, "id_token")
    IN IF IsRaised(access_token) THEN access_token
       ELSE IF IsRaised(id_token) THEN id_token
       ELSE LET decoded == jwt_decode(self, PYJWT_2, id_token.value)
            IN IF IsRaised(decoded) THEN decoded
               ELSE userdict(self, access_token.value, decoded.value)

\* Whether authenticate, given this token response, reaches jwt.decode.
reaches_decode(resp_json) ==
    /\ IsReturned(resp_json)
    /\ IsReturned(getitem(resp_json.value, "access_token"))
    /\ IsReturned(getitem(resp_json.value, "id_token"))

\* ------------------------------------------------------------------ state
VARIABLES
    cfg,      \* the authenticator object (self)
    login,    \* the login redirect: Pending, or the resolution of authorize_url
    pc,       \* per flow: where authenticate is
    code,     \* per flow: the authorization code of the callback
    sent,     \* per flow: the requests issued, in order
    received, \* per flow: the responses received, in order
    result,   \* per flow: the outcome of authenticate
    lpc,      \* per flow: where get_user_attributes is
    lresult,  \* per flow: the outcome of get_user_attributes
    events    \* per flow: the steps taken, in order

vars == <<cfg, login, pc, code, sent, received, result, lpc, lresult, events>>

Init ==
    /\ \E tenant \in ConfiguredTenants, claim \in ConfiguredClaims,
          version \in Versions, env \in Environments :
          cfg = Authenticator(tenant, claim, version, env)
    /\ login = Pending
    /\ pc = [f \in Flows |-> "idle"]
    /\ code = [f \in Flows |-> ""]
    /\ sent = [f \in Flows |-> <<>>]
    /\ received = [f \in Flows |-> <<>>]
    /\ result = [f \in Flows |-> Pending]
    /\ lpc = [f \in Flows |-> "none"]
    /\ lresult = [f \in Flows |-> Pending]
    /\ events = [f \in Flows |-> <<>>]

\* The host's login handler redirects the browser to authorize_url.
LoginRedirect ==
    /\ login = Pending
    /\ login' = authorize_url_default(cfg)
    /\ UNCHANGED <<cfg, pc, code, sent, received, result, lpc, lresult, events>>

\* Variant: the code is kept on the authenticator object, which every flow
\* shares, instead of in a local variable.
Authenticate_shared_code(f, c) ==
    /\ login # Pending
    /\ pc[f] = "idle"
    /\ code' = [g \in Flows |-> c]
    /\ LET url == token_url_default(cfg)
       IN IF IsRaised(url)
          THEN /\ pc' = [pc EXCEPT ![f] = "failed"]
               /\ result' = [result EXCEPT ![f] = url]
               /\ events' = [events EXCEPT ![f] = Append(@, "fail")]
               /\ sent' = sent
          ELSE /\ pc' = [pc EXCEPT ![f] = "fetching"]
               /\ sent' = [sent EXCEPT ![f] = Append(@, token_request(cfg, url.value, c))]
               /\ events' = [events EXCEPT ![f] = Append(@, "token_post")]
               /\ result' = result
    /\ UNCHANGED <<cfg, login, received, lpc, lresult>>

\* authenticate(handler), up to `await self.fetch(req)`. The callback that
\* carries the code c follows the host's login redirect.
Authenticate(f, c) ==
    /\ login # Pending
    /\ pc[f] = "idle"
    /\ code' = [code EXCEPT ![f] = c]
    /\ LET url == token_url_default(cfg)
       IN IF IsRaised(url)
          THEN /\ pc' = [pc EXCEPT ![f] = "failed"]
               /\ result' = [result EXCEPT ![f] = url]
               /\ events' = [events EXCEPT ![f] = Append(@, "fail")]
               /\ sent' = sent
          ELSE /\ pc' = [pc EXCEPT ![f] = "fetching"]
               /\ sent' = [sent EXCEPT ![f] = Append(@, token_request(cfg, url.value, c))]
               /\ events' = [events EXCEPT ![f] = Append(@, "token_post")]
               /\ result' = result
    /\ UNCHANGED <<cfg, login, received, lpc, lresult>>

\* The steps authenticate takes once the token response r has arrived.
steps_after(r, PYJWT_2) ==
    LET resp_json == fetch(r)
        out == IF IsRaised(resp_json) THEN resp_json
               ELSE authenticate_tail(cfg, PYJWT_2, resp_json.value)
    IN (IF IsReturned(resp_json) THEN <<"token_response">> ELSE <<>>)
       \o (IF reaches_decode(resp_json) THEN <<"decode">> ELSE <<>>)
       \o (IF IsReturned(out) THEN <<"return">> ELSE <<"fail">>)

\* Variant: a failed exchange is retried: the POST is sent again and the
\* flow goes on after its failure.
AuthenticateResume_retry(f, r, PYJWT_2) ==
    /\ pc[f] = "fetching"
    /\ received' = [received EXCEPT ![f] = Append(@, r)]
    /\ LET resp_json == fetch(r)
           out == IF IsRaised(resp_json) THEN resp_json
                  ELSE authenticate_tail(cfg, PYJWT_2, resp_json.value)
       IN /\ events' = [events EXCEPT ![f] = @ \o steps_after(r, PYJWT_2)]
          /\ IF IsRaised(out) /\ Len(sent[f]) < 2
             THEN /\ result' = result
                  /\ pc' = pc
                  /\ sent' = [sent EXCEPT ![f] = Append(@, sent[f][1])]
             ELSE /\ result' = [result EXCEPT ![f] = out]
                  /\ pc' = [pc EXCEPT ![f] = IF IsReturned(out) THEN "done" ELSE "failed"]
                  /\ sent' = sent
    /\ UNCHANGED <<cfg, login, code, lpc, lresult>>

\* authenticate, resumed with the token endpoint's response r. PYJWT_2 is
\* the installed jwt library's major version being 2 or later: either build
\* may be the one running.
AuthenticateResume(f, r, PYJWT_2) ==
    /\ pc[f] = "fetching"
    /\ received' = [received EXCEPT ![f] = Append(@, r)]
    /\ LET resp_json == fetch(r)
           out == IF IsRaised(resp_json) THEN resp_json
                  ELSE authenticate_tail(cfg, PYJWT_2, resp_json.value)
       IN /\ result' = [result EXCEPT ![f] = out]
          /\ pc' = [pc EXCEPT ![f] = IF IsReturned(out) THEN "done" ELSE "failed"]
          /\ events' = [events EXCEPT ![f] = @ \o steps_after(r, PYJWT_2)]
    /\ UNCHANGED <<cfg, login, code, sent, lpc, lresult>>

\* get_user_attributes(oid), up to the first `await http_client.fetch(req)`.
get_user_attributes(f, oid) ==
    /\ lpc[f] = "none"
    /\ LET url == token_url_default(cfg)
       IN IF IsRaised(url)
          THEN /\ lpc' = [lpc EXCEPT ![f] = "failed"]
               /\ lresult' = [lresult EXCEPT ![f] = url]
               /\ events' = [events EXCEPT ![f] = Append(@, "lookup_fail")]
               /\ sent' = sent
          ELSE /\ lpc' = [lpc EXCEPT ![f] = "posting"]
               /\ sent' = [sent EXCEPT ![f] =
                              Append(@, client_credentials_request(cfg, url.value))]
               /\ events' = [events EXCEPT ![f] = Append(@, "lookup_post")]
               /\ lresult' = lresult
    /\ UNCHANGED <<cfg, login, pc, code, received, result>>

\* The host enriches the identity record of a finished login: it calls
\* get_user_attributes with the oid claim of the record.
HostLookup(f) ==
    /\ pc[f] = "done"
    /\ "oid" \in DOMAIN result[f].value.auth_state.user
    /\ Cardinality({g \in Flows : lpc[g] # "none"}) < MaxLookups
    /\ get_user_attributes(f, result[f].value.auth_state.user.oid)

\* The oid argument of the lookup in progress for flow f.
oid_of(f) == result[f].value.auth_state.user.oid

\* get_user_attributes, resumed with the token endpoint's response r:
\* json.loads, resp_json["access_token"], then the GET is issued.
LookupTokenReturn(f, r) ==
    /\ lpc[f] = "posting"
    /\ received' = [received EXCEPT ![f] = Append(@, r)]
    /\ LET resp == http_client_fetch(r)
           resp_json == IF IsRaised(resp) THEN resp ELSE json_loads(resp.value)
           access_token == IF IsRaised(resp_json) THEN resp_json
                           ELSE getitem(resp_json.value, "access_token")
       IN IF IsRaised(access_token)
          THEN /\ lpc' = [lpc EXCEPT ![f] = "failed"]
               /\ lresult' = [lresult EXCEPT ![f] = access_token]
               /\ events' = [events EXCEPT ![f] = Append(@, "lookup_fail")]
               /\ sent' = sent
          ELSE /\ lpc' = [lpc EXCEPT ![f] = "getting"]
               /\ sent' = [sent EXCEPT ![f] =
                              Append(@, graph_request(cfg, oid_of(f), access_token.value))]
               /\ events' = [events EXCEPT ![f] = Append(@, "lookup_get")]
               /\ lresult' = lresult
    /\ UNCHANGED <<cfg, login, pc, code, result>>

\* Variant: a failed directory lookup fails the login it enriches.
LookupGetReturn_fatal(f, r) ==
    /\ lpc[f] = "getting"
    /\ received' = [received EXCEPT ![f] = Append(@, r)]
    /\ LET resp == http_client_fetch(r)
           resp_json == IF IsRaised(resp) THEN resp ELSE json_loads(resp.value)
       IN /\ lresult' = [lresult EXCEPT ![f] = resp_json]
          /\ lpc' = [lpc EXCEPT ![f] = IF IsReturned(resp_json) THEN "done" ELSE "failed"]
          /\ result' = [result EXCEPT ![f] = IF IsReturned(resp_json) THEN @ ELSE resp_json]
          /\ pc' = [pc EXCEPT ![f] = IF IsReturned(resp_json) THEN @ ELSE "failed"]
          /\ events' = [events EXCEPT ![f] =
                           Append(@, IF IsReturned(resp_json)
                                     THEN "lookup_return" ELSE "lookup_fail")]
    /\ UNCHANGED <<cfg, login, code, sent>>

\* get_user_attributes, resumed with the directory API's response r.
LookupGetReturn(f, r) ==
    /\ lpc[f] = "getting"
    /\ received' = [received EXCEPT ![f] = Append(@, r)]
    /\ LET resp == http_client_fetch(r)
           resp_json == IF IsRaised(resp) THEN resp ELSE json_loads(resp.value)
       IN /\ lresult' = [lresult EXCEPT ![f] = resp_json]
          /\ lpc' = [lpc EXCEPT ![f] = IF IsReturned(resp_json) THEN "done" ELSE "failed"]
          /\ events' = [events EXCEPT ![f] =
                           Append(@, IF IsReturned(resp_json)
                                     THEN "lookup_return" ELSE "lookup_fail")]
    /\ UNCHANGED <<cfg, login, pc, code, sent, result>>

Next ==
    \/ LoginRedirect
    \/ \E f \in Flows, c \in Codes : Authenticate(f, c)
    \/ \E f \in Flows, r \in TokenResponses, PYJWT_2 \in BOOLEAN :
          AuthenticateResume(f, r, PYJWT_2)
    \/ \E f \in Flows : HostLookup(f)
    \/ \E f \in Flows, r \in ClientCredentialsResponses : LookupTokenReturn(f, r)
    \/ \E f \in Flows, r \in GraphResponses : LookupGetReturn(f, r)

Spec == Init /\ [][Next]_vars

\* ================================================================= claims
\* What the claims read off the state.
InRange2xx(r) == r.kind = "http" /\ r.status >= 200 /\ r.status <= 299
JsonObject(r) == InRange2xx(r) /\ r.body.json
HasKey(r, key) == JsonObject(r) /\ key \in DOMAIN r.body.val
IsTokenPost(q) == q.method = "POST" /\ q.body.grant_type = "authorization_code"
IsCredentialsPost(q) == q.method = "POST" /\ q.body.grant_type = "client_credentials"
IsGet(q) == q.method = "GET"
Count(seq, P(_)) == Cardinality({i \in 1..Len(seq) : P(seq[i])})
Terminal(f) == pc[f] \in {"done", "failed"}
ValidVersion == cfg.access_token_version \in {1, 2}
Has(seq, e) == \E i \in 1..Len(seq) : seq[i] = e
First(seq, e) == CHOOSE i \in 1..Len(seq) : seq[i] = e /\ \A j \in 1..(i - 1) : seq[j] # e

\* A token response on which the spec says the exchange fails.
BadTokenResponse(r) ==
    ~HasKey(r, "access_token") \/ ~HasKey(r, "id_token")

\* The claims an ID token's payload segment carries, when it carries any.
WellFormedToken(t) == Len(t) = 3 /\ t[2].json
GoodTokenResponse(r) ==
    /\ HasKey(r, "access_token")
    /\ HasKey(r, "id_token")
    /\ WellFormedToken(r.body.val.id_token)
    /\ cfg.username_claim \in DOMAIN r.body.val.id_token[2].val

\* C1: every authenticate attempt ends returned (a record) or raised (no
\* record), never both and nothing in between; a token response that is a
\* transport failure, a non-2xx status, not JSON, or lacks access_token or
\* id_token never yields a record; an attempt POSTs to the token endpoint
\* exactly once (never when no token URL resolves), and never again.
C1_TwoTerminalStates ==
    \A f \in Flows :
        /\ (pc[f] = "done") = IsReturned(result[f])
        /\ (pc[f] = "failed") = IsRaised(result[f])
        /\ (pc[f] \in {"idle", "fetching"}) = (result[f] = Pending)
        /\ Count(sent[f], IsTokenPost) =
              (IF pc[f] # "idle" /\ ValidVersion THEN 1 ELSE 0)
        /\ (Len(received[f]) >= 1 /\ BadTokenResponse(received[f][1]))
              => (pc[f] = "failed" /\ IsRaised(result[f]))

C1_Witness ==
    \E f \in Flows :
        /\ pc[f] = "failed"
        /\ Len(received[f]) = 1
        /\ HasKey(received[f][1], "id_token")
        /\ ~HasKey(received[f][1], "access_token")
        /\ Count(sent[f], IsTokenPost) = 1

\* C2: a record is returned only when the decoded claims hold the
\* configured username claim, and its username is present and non-empty.
C2_UsernameNonEmpty ==
    \A f \in Flows :
        IsReturned(result[f]) =>
            /\ cfg.username_claim \in DOMAIN result[f].value.auth_state.user
            /\ "name" \in DOMAIN result[f].value
            /\ result[f].value.name # ""

\* C3: a token response with access_token A and an id_token whose payload
\* decodes to claims C holding the configured username claim yields the
\* record {name: C[username_claim], auth_state: {access_token: A, user: C}},
\* and every record returned is of that form.
C3_RecordFromResponse ==
    \A f \in Flows :
        /\ (Len(received[f]) >= 1 /\ GoodTokenResponse(received[f][1]))
              => IsReturned(result[f])
        /\ IsReturned(result[f]) =>
              /\ Len(received[f]) >= 1
              /\ GoodTokenResponse(received[f][1])
              /\ LET A == received[f][1].body.val.access_token
                     C == received[f][1].body.val.id_token[2].val
                     rec == result[f].value
                 IN /\ DOMAIN rec = {"name", "auth_state"}
                    /\ DOMAIN rec.auth_state = {"access_token", "user"}
                    /\ rec.name = C[cfg.username_claim]
                    /\ rec.auth_state.access_token = A
                    /\ rec.auth_state.user = C

C3_Witness ==
    \E f \in Flows :
        /\ cfg.username_claim = "upn"
        /\ IsReturned(result[f])
        /\ result[f].value.name = "bob@example.org"
        /\ result[f].value.auth_state.access_token = "A2"
        /\ result[f].value.auth_state.user = BobClaims

\* C4: with an API version other than 1 or 2 no authorize URL and no token
\* URL is ever produced: the login redirect and every authenticate and
\* lookup end in ValueError, and no request is sent.
C4_InvalidVersionFails ==
    ~ValidVersion =>
        /\ login \in {Pending, Raised("ValueError")}
        /\ \A f \in Flows :
              /\ sent[f] = <<>>
              /\ result[f] \in {Pending, Raised("ValueError")}
              /\ pc[f] # "idle" => result[f] = Raised("ValueError")
              /\ lresult[f] \in {Pending, Raised("ValueError")}

C4_Witness ==
    /\ cfg.access_token_version = 3
    /\ login = Raised("ValueError")
    /\ \E f \in Flows : pc[f] = "failed" /\ result[f] = Raised("ValueError")

\* C5: for tenant T, version 1 resolves to .../T/oauth2/authorize and
\* .../T/oauth2/token, version 2 to .../T/oauth2/v2.0/authorize and
\* .../T/oauth2/v2.0/token, whatever the rest of the configuration.
ExpectedUrl(T, version, last) ==
    "https://login.microsoftonline.com/" \o T \o "/oauth2/"
        \o (IF version = 2 THEN "v2.0/" ELSE "") \o last

AllAuthenticators ==
    {Authenticator(t, c, v, e) : t \in ConfiguredTenants, c \in ConfiguredClaims,
                                 v \in Versions, e \in Environments}

C5_UrlShape ==
    /\ ValidVersion =>
          /\ login \in {Pending, Returned(ExpectedUrl(cfg.tenant_id,
                                     cfg.access_token_version, "authorize"))}
          /\ \A f \in Flows : \A i \in 1..Len(sent[f]) :
                sent[f][i].method = "POST" =>
                    sent[f][i].url = ExpectedUrl(cfg.tenant_id,
                                         cfg.access_token_version, "token")
    /\ \A other \in AllAuthenticators :
          (other.tenant_id = cfg.tenant_id
              /\ other.access_token_version = cfg.access_token_version)
          => /\ token_url_default(other) = token_url_default(cfg)
             /\ authorize_url_default(other) = authorize_url_default(cfg)

C5_Witness ==
    /\ cfg.access_token_version = 2
    /\ cfg.tenant_id = "abc"
    /\ login = Returned("https://login.microsoftonline.com/abc/oauth2/v2.0/authorize")
    /\ \E f \in Flows :
          /\ Len(sent[f]) >= 1
          /\ sent[f][1].url = "https://login.microsoftonline.com/abc/oauth2/v2.0/token"

\* C6: with no tenant identifier (the empty string) no authorize or token
\* URL is produced, no request is sent and no login succeeds.
C6_MissingTenantFails ==
    cfg.tenant_id = "" =>
        /\ ~IsReturned(login)
        /\ \A f \in Flows : sent[f] = <<>> /\ ~IsReturned(result[f])

\* C7: in each flow the token POST precedes its response, the response
\* precedes the decoding, the decoding precedes every lookup step, and
\* nothing follows a failure of authenticate.
IsLookupEvent(e) ==
    e \in {"lookup_post", "lookup_get", "lookup_return", "lookup_fail"}

C7_StepOrder ==
    \A f \in Flows :
        LET ev == events[f]
        IN /\ Has(ev, "token_response") =>
                 /\ Has(ev, "token_post")
                 /\ First(ev, "token_post") < First(ev, "token_response")
           /\ Has(ev, "decode") =>
                 /\ Has(ev, "token_response")
                 /\ First(ev, "token_response") < First(ev, "decode")
                 /\ Len(received[f]) >= 1
           /\ \A i \in 1..Len(ev) : IsLookupEvent(ev[i]) =>
                 /\ Has(ev, "decode")
                 /\ First(ev, "decode") < i
           /\ \A i \in 1..Len(ev) : ev[i] = "fail" => i = Len(ev)
           /\ Count(ev, LAMBDA e : e = "decode") <= 1

C7_Witness ==
    \E f \in Flows :
        events[f] = <<"token_post", "token_response", "decode", "return",
                      "lookup_post", "lookup_get", "lookup_return">>

\* C8: a step of one flow changes no other flow's state and never the
\* configuration, and two finished flows with the same code and the same
\* responses have the same outcome.
FlowState(f) ==
    <<pc[f], code[f], sent[f], received[f], result[f], lpc[f], lresult[f], events[f]>>

SameInputsSameOutcome ==
    \A f, g \in Flows :
        (Terminal(f) /\ Terminal(g) /\ code[f] = code[g]
            /\ Len(received[f]) >= 1 /\ Len(received[g]) >= 1
            /\ received[f][1] = received[g][1])
        => (result[f] = result[g] /\ sent[f][1] = sent[g][1])

FlowsDoNotInteract ==
    /\ cfg' = cfg
    /\ \A f, g \in Flows :
          (f # g /\ FlowState(f)' # FlowState(f)) => FlowState(g)' = FlowState(g)

C8_Independence == [](SameInputsSameOutcome) /\ [][FlowsDoNotInteract]_vars

C8_Witness ==
    \E f, g \in Flows :
        /\ f # g
        /\ pc[f] = "done" /\ pc[g] = "done"
        /\ code[f] = code[g]
        /\ received[f][1] = received[g][1]
        /\ result[f] = result[g]

\* C9: authenticate returns its record before any lookup request is sent,
\* and no step of a lookup, whatever its outcome, changes the record or
\* the login's outcome.
LookupLeavesLoginAlone ==
    \A f \in Flows :
        /\ (pc[f] # "done" /\ pc'[f] = "done") =>
              (lpc'[f] = "none" /\ Count(sent'[f], IsTokenPost) = Len(sent'[f]))
        /\ Terminal(f) => (result'[f] = result[f] /\ pc'[f] = pc[f])

C9_LookupNotRequired == [][LookupLeavesLoginAlone]_vars

C9_Witness ==
    \E f \in Flows :
        /\ pc[f] = "done"
        /\ IsReturned(result[f])
        /\ lpc[f] = "failed"
        /\ Len(received[f]) = 3
        /\ received[f][3] = NetworkError

\* C10: a lookup sends the client-credentials POST first and at most one
\* GET after it; the GET goes to .../v1.0/users/{oid} with the access token
\* of the POST's response as Bearer, and only when that response is a 2xx
\* JSON object with access_token; a failure of either call leaves no
\* attribute mapping; a success returns the GET's JSON body.
C10_TwoSequentialCalls ==
    \A f \in Flows :
        LET started == lpc[f] # "none" /\ ValidVersion
            lookups == SubSeq(sent[f], 2, Len(sent[f]))
            answers == SubSeq(received[f], 2, Len(received[f]))
        IN /\ ~started => (lookups = <<>> /\ answers = <<>>)
           /\ started =>
                 /\ Len(lookups) \in {1, 2}
                 /\ IsCredentialsPost(lookups[1])
                 /\ lookups[1].url = token_url_default(cfg).value
                 /\ lookups[1].body.scope = <<"https://graph.microsoft.com/.default">>
                 /\ Len(answers) <= Len(lookups)
                 /\ (lpc[f] = "posting") = (Len(answers) = 0)
           /\ (started /\ Len(lookups) = 2) =>
                 /\ Len(answers) >= 1
                 /\ HasKey(answers[1], "access_token")
                 /\ lookups[2] =
                       [method |-> "GET",
                        url |-> "https://graph.microsoft.com/v1.0/users/"
                                   \o result[f].value.auth_state.user.oid,
                        headers |-> [Authorization |->
                            "Bearer " \o answers[1].body.val.access_token]]
           /\ (started /\ Len(answers) >= 1 /\ ~HasKey(answers[1], "access_token")) =>
                 (Len(lookups) = 1 /\ lpc[f] = "failed" /\ IsRaised(lresult[f]))
           /\ (started /\ Len(answers) = 2) =>
                 IF JsonObject(answers[2])
                 THEN lpc[f] = "done" /\ lresult[f] = Returned(answers[2].body.val)
                 ELSE lpc[f] = "failed" /\ IsRaised(lresult[f])
           /\ IsReturned(lresult[f]) => (lpc[f] = "done" /\ Len(answers) = 2)
           /\ (lpc[f] = "failed") = IsRaised(lresult[f])

C10_Witness ==
    \E f \in Flows :
        /\ lpc[f] = "done"
        /\ Len(sent[f]) = 3
        /\ lresult[f] = Returned([id |-> "o1", displayName |-> "Alice"])
====
